---- MODULE Spec2Model ----
(***************************************************************************)
(* KnowledgeManager (dummy_project/src/utils.py): articles kept as two     *)
(* files per identifier, <base>/articles/<id>.md and                       *)
(* <base>/metadata/<id>.json.                                              *)
(*                                                                         *)
(* Text is a sequence of one-character strings.  A file that may be absent *)
(* is <<>> (no file) or <<data>> (a file holding data).  Files are written *)
(* and read in Python text mode on a POSIX platform: a write stores the    *)
(* characters as given, a read applies universal-newline translation.      *)
(* A metadata file holds the JSON document json.dump writes: its strings   *)
(* are stored escaped and json.load unescapes them.  Timestamps are clock  *)
(* ticks; the identifier is the clock second the tick falls in.            *)
(***************************************************************************)
EXTENDS Integers, Sequences, FiniteSets, TLC

VARIABLES articles, metadata, now, pend, last

vars == <<articles, metadata, now, pend, last>>

----------------------------------------------------------------------------
(* Bounds of the model *)

\* last clock tick the model lets the clock reach
MaxNow == 3
\* clock ticks per second (the timestamps are finer than the identifier)
TicksPerSecond == 2

Ids == 0..(MaxNow \div TicksPerSecond)

Callers == {"c1", "c2"}
MainCaller == "c1"

\* arguments the callers pass
Titles == { <<"A">>, <<"b", "\r", "a">> }
Contents == { <<"a">>, <<"b", "\r", "\n", "A">> }
TagLists == { << <<"x">> >>, << <<"X">>, <<"y">> >> }
SmallTitles == { <<"A">> }
SmallContents == { <<"a">>, <<"B", "\n", "b">> }
Queries == { <<>>, <<"A">>, <<"b", "\n">> }
OneContent == { <<"a">> }
OneTagList == { << <<"x">> >> }

\* Optional[...] arguments: None or a value
None == <<>>
Some(x) == <<x>>
Opt(S) == {None} \cup {Some(x) : x \in S}

----------------------------------------------------------------------------
(* Text helpers *)

RECURSIVE Translate(_)
\* text-mode read: "\r\n" and a lone "\r" are read as "\n"
Translate(s) ==
    IF s = <<>> THEN <<>>
    ELSE IF Head(s) = "\r"
         THEN <<"\n">> \o Translate(IF Len(s) > 1 /\ s[2] = "\n"
                                    THEN Tail(Tail(s)) ELSE Tail(s))
         ELSE <<Head(s)>> \o Translate(Tail(s))

\* text-mode write on POSIX: "\n" is written as os.linesep = "\n"
WriteText(s) == s

RECURSIVE ReadLines(_)
\* f.readlines(): the lines of the translated text, each with its "\n"
ReadLines(text) ==
    IF text = <<>> THEN <<>>
    ELSE LET nl == {i \in 1..Len(text) : text[i] = "\n"}
         IN IF nl = {} THEN <<text>>
            ELSE LET k == CHOOSE i \in nl : \A j \in nl : i <= j
                 IN <<SubSeq(text, 1, k)>> \o ReadLines(SubSeq(text, k + 1, Len(text)))

\* str.lower() on one character of the alphabet used
LowerChar(c) ==
    CASE c = "A" -> "a"
      [] c = "B" -> "b"
      [] c = "X" -> "x"
      [] OTHER -> c

RECURSIVE Lower(_)
Lower(s) == IF s = <<>> THEN <<>> ELSE <<LowerChar(Head(s))>> \o Lower(Tail(s))

\* a in b  (substring)
IsSubstr(a, b) ==
    \E i \in 0..(Len(b) - Len(a)) : SubSeq(b, i + 1, i + Len(a)) = a

RECURSIVE JsonEscape(_)
\* json.dump of a string: line breaks, quote and backslash leave as escapes
JsonEscape(s) ==
    IF s = <<>> THEN <<>>
    ELSE (CASE Head(s) = "\n" -> <<"\\", "n">>
            [] Head(s) = "\r" -> <<"\\", "r">>
            [] Head(s) = "\\" -> <<"\\", "\\">>
            [] Head(s) = "\"" -> <<"\\", "\"">>
            [] OTHER -> <<Head(s)>>) \o JsonEscape(Tail(s))

RECURSIVE JsonUnescape(_)
\* json.load of a string
JsonUnescape(s) ==
    IF s = <<>> THEN <<>>
    ELSE IF Head(s) = "\\" /\ Len(s) > 1
         THEN (CASE s[2] = "n" -> <<"\n">>
                 [] s[2] = "r" -> <<"\r">>
                 [] OTHER -> <<s[2]>>) \o JsonUnescape(Tail(Tail(s)))
         ELSE <<Head(s)>> \o JsonUnescape(Tail(s))

RECURSIVE JsonEscapeAll(_)
\* json.dump of a list of strings
JsonEscapeAll(l) == IF l = <<>> THEN <<>> ELSE <<JsonEscape(Head(l))>> \o JsonEscapeAll(Tail(l))

RECURSIVE JsonUnescapeAll(_)
\* json.load of a list of strings
JsonUnescapeAll(l) == IF l = <<>> THEN <<>> ELSE <<JsonUnescape(Head(l))>> \o JsonUnescapeAll(Tail(l))

\* json.dump(metadata, f): the document stored in the metadata file
JsonDump(m) ==
    [title |-> JsonEscape(m.title),
     created_at |-> m.created_at,
     tags |-> JsonEscapeAll(m.tags),
     last_modified |-> m.last_modified]

\* json.load(f): the dict read from the metadata file
JsonLoad(d) ==
    [title |-> JsonUnescape(d.title),
     created_at |-> d.created_at,
     tags |-> JsonUnescapeAll(d.tags),
     last_modified |-> d.last_modified]

----------------------------------------------------------------------------
(* State helpers *)

\* datetime.now().strftime("%Y%m%d_%H%M%S"): the second of tick t
ArticleId(t) == t \div TicksPerSecond

\* variant of Exists: only the body file is looked for
ExistsBody(id) == articles[id] # <<>>

\* os.path.exists(article_path) and os.path.exists(metadata_path)
Exists(id) == articles[id] # <<>> /\ metadata[id] # <<>>

\* variant of Heading: one line break between heading and content
HeadingOneBreak(title, content) == <<"#", " ">> \o title \o <<"\n">> \o content

\* f"# {title}\n\n{content}"
Heading(title, content) == <<"#", " ">> \o title \o <<"\n", "\n">> \o content

\* the metadata dict create_article builds
NewMetadata(title, tags, created, modified) ==
    [title |-> title, created_at |-> created, tags |-> tags, last_modified |-> modified]

\* variant of Rewritten: the content follows the first line directly
RewrittenNoBreak(lines, content) == lines[1] \o content

\* f"{title_line}\n{content}" with title_line = lines[0]
Rewritten(lines, content) == lines[1] \o <<"\n">> \o content

\* variant of Retagged: created_at is stamped too
RetaggedStamped(m, tags, t) == [m EXCEPT !.tags = tags, !.last_modified = t, !.created_at = t]

\* metadata["tags"] = tags; metadata["last_modified"] = now
Retagged(m, tags, t) == [m EXCEPT !.tags = tags, !.last_modified = t]

\* variant of WriteFile: a file that exists is left as it is
WriteFileNew(files, id, data) == IF files[id] = <<>> THEN [files EXCEPT ![id] = Some(data)] ELSE files

\* open(path, "w") ... write(data): the file is created or replaced
WriteFile(files, id, data) == [files EXCEPT ![id] = Some(data)]

\* a caller that is in no call
Idle ==
    [pc |-> "idle", id |-> 0, title |-> <<>>, content |-> None, tags |-> None,
     existed |-> FALSE]

\* the record of the most recent call: what was called, with what, and how
\* it ended (status "pending" while the call runs)
Call(op, status, id, title, content, tags, query, existed, ret) ==
    [op |-> op, status |-> status, id |-> id, title |-> title, content |-> content,
     tags |-> tags, query |-> query, existed |-> existed, ret |-> ret]

Init ==
    /\ articles = [id \in Ids |-> <<>>]
    /\ metadata = [id \in Ids |-> <<>>]
    /\ now = 0
    /\ pend = [p \in Callers |-> Idle]
    /\ last = Call("none", "returned", 0, <<>>, None, None, <<>>, FALSE, <<>>)

----------------------------------------------------------------------------
(* The clock *)

Tick ==
    /\ now < MaxNow
    /\ now' = now + 1
    /\ UNCHANGED <<articles, metadata, pend, last>>

----------------------------------------------------------------------------
(* create_article *)

\* variant of CreateBody: the first file written is the metadata file
CreateMetaFirst(p, title, content, tags) ==
    /\ pend[p].pc = "idle"
    /\ LET id == ArticleId(now)
       IN /\ metadata' = [metadata EXCEPT ![id] =
                 Some(JsonDump([title |-> title, created_at |-> now, tags |-> tags,
                                last_modified |-> now]))]
          /\ pend' = [pend EXCEPT ![p] =
                 [pc |-> "create_meta", id |-> id, title |-> title,
                  content |-> Some(content), tags |-> Some(tags),
                  existed |-> articles[id] # <<>> /\ metadata[id] # <<>>]]
          /\ last' = [op |-> "create", status |-> "pending", id |-> id, title |-> title,
                      content |-> Some(content), tags |-> Some(tags), query |-> <<>>,
                      existed |-> articles[id] # <<>> /\ metadata[id] # <<>>, ret |-> <<>>]
    /\ UNCHANGED <<articles, now>>

\* lines 40-45: the identifier is taken from the clock, the body is written
CreateBody(p, title, content, tags) ==
    /\ pend[p].pc = "idle"
    /\ LET id == ArticleId(now)
       IN /\ articles' = WriteFile(articles, id, WriteText(Heading(title, content)))
          /\ pend' = [pend EXCEPT ![p] =
                 [pc |-> "create_meta", id |-> id, title |-> title,
                  content |-> Some(content), tags |-> Some(tags),
                  existed |-> Exists(id)]]
          /\ last' = Call("create", "pending", id, title, Some(content), Some(tags),
                          <<>>, Exists(id), <<>>)
    /\ UNCHANGED <<metadata, now>>

\* lines 48-59: created_at and last_modified are two readings of the clock,
\* the metadata is written, the identifier is returned
CreateMeta(p) ==
    /\ pend[p].pc = "create_meta"
    /\ \E t \in now..MaxNow :
         LET c == pend[p]
             m == NewMetadata(c.title, c.tags[1], now, t)
         IN /\ metadata' = WriteFile(metadata, c.id, JsonDump(m))
            /\ now' = t
            /\ last' = Call("create", "returned", c.id, c.title, c.content, c.tags,
                            <<>>, c.existed, c.id)
    /\ pend' = [pend EXCEPT ![p] = Idle]
    /\ UNCHANGED articles

\* lines 56-57: the metadata cannot be written (an I/O error propagates)
CreateFail(p) ==
    /\ pend[p].pc = "create_meta"
    /\ LET c == pend[p]
       IN last' = Call("create", "raised", c.id, c.title, c.content, c.tags,
                       <<>>, c.existed, <<>>)
    /\ pend' = [pend EXCEPT ![p] = Idle]
    /\ UNCHANGED <<articles, metadata, now>>

----------------------------------------------------------------------------
(* update_article *)

\* lines 74-78: both files must exist, otherwise False is returned
UpdateCheck(p, id, content, tags) ==
    /\ pend[p].pc = "idle"
    /\ IF ~Exists(id)
       THEN /\ last' = Call("update", "returned", id, <<>>, content, tags, <<>>,
                            FALSE, FALSE)
            /\ pend' = pend
       ELSE /\ last' = Call("update", "pending", id, <<>>, content, tags, <<>>,
                            FALSE, <<>>)
            /\ pend' = [pend EXCEPT ![p] =
                   [pc |-> "update_content", id |-> id, title |-> <<>>,
                    content |-> content, tags |-> tags, existed |-> FALSE]]
    /\ UNCHANGED <<articles, metadata, now>>

\* lines 80-86: with content given, the body becomes its first line, a line
\* break and the content
UpdateContent(p) ==
    /\ pend[p].pc = "update_content"
    /\ LET u == pend[p]
           raised == Call("update", "raised", u.id, <<>>, u.content, u.tags, <<>>,
                          FALSE, <<>>)
       IN IF u.content = None
          THEN /\ pend' = [pend EXCEPT ![p].pc = "update_tags"]
               /\ UNCHANGED <<articles, last>>
          ELSE IF articles[u.id] = <<>>
          THEN \* open(article_path, "r+") raises FileNotFoundError
               /\ pend' = [pend EXCEPT ![p] = Idle]
               /\ last' = raised
               /\ UNCHANGED articles
          ELSE LET lines == ReadLines(Translate(articles[u.id][1]))
               IN IF lines = <<>>
                  THEN \* lines[0] raises IndexError
                       /\ pend' = [pend EXCEPT ![p] = Idle]
                       /\ last' = raised
                       /\ UNCHANGED articles
                  ELSE /\ articles' = WriteFile(articles, u.id,
                                          WriteText(Rewritten(lines, u.content[1])))
                       /\ pend' = [pend EXCEPT ![p].pc = "update_tags"]
                       /\ UNCHANGED last
    /\ UNCHANGED <<metadata, now>>

\* variant of UpdateTags: last_modified is stamped also when no tags are given
UpdateTagsStamp(p) ==
    /\ pend[p].pc = "update_tags"
    /\ LET u == pend[p]
           m == JsonLoad(metadata[u.id][1])
       IN /\ metadata[u.id] # <<>>
          /\ metadata' = [metadata EXCEPT ![u.id] =
                 Some(JsonDump([m EXCEPT !.tags = IF u.tags = None THEN m.tags ELSE u.tags[1],
                                         !.last_modified = now]))]
          /\ last' = [op |-> "update", status |-> "returned", id |-> u.id, title |-> <<>>,
                      content |-> u.content, tags |-> u.tags, query |-> <<>>,
                      existed |-> FALSE, ret |-> TRUE]
    /\ pend' = [pend EXCEPT ![p] = Idle]
    /\ UNCHANGED <<articles, now>>

\* lines 88-98: with tags given, the metadata is loaded, changed and written
\* back; True is returned
UpdateTags(p) ==
    /\ pend[p].pc = "update_tags"
    /\ LET u == pend[p]
       IN IF u.tags = None
          THEN /\ last' = Call("update", "returned", u.id, <<>>, u.content, u.tags,
                               <<>>, FALSE, TRUE)
               /\ UNCHANGED metadata
          ELSE IF metadata[u.id] = <<>>
          THEN \* open(metadata_path, "r") raises FileNotFoundError
               /\ last' = Call("update", "raised", u.id, <<>>, u.content, u.tags,
                               <<>>, FALSE, <<>>)
               /\ UNCHANGED metadata
          ELSE /\ metadata' = WriteFile(metadata, u.id,
                     JsonDump(Retagged(JsonLoad(metadata[u.id][1]), u.tags[1], now)))
               /\ last' = Call("update", "returned", u.id, <<>>, u.content, u.tags,
                               <<>>, FALSE, TRUE)
    /\ pend' = [pend EXCEPT ![p] = Idle]
    /\ UNCHANGED <<articles, now>>

----------------------------------------------------------------------------
(* get_article *)

\* lines 151-166: None, or the body as read and the metadata as loaded
get_article(id) ==
    IF ~Exists(id) THEN None
    ELSE Some([content |-> Translate(articles[id][1]),
               metadata |-> JsonLoad(metadata[id][1])])

Get(p, id) ==
    /\ pend[p].pc = "idle"
    /\ last' = Call("get", "returned", id, <<>>, None, None, <<>>, FALSE,
                    get_article(id))
    /\ UNCHANGED <<articles, metadata, now, pend>>

----------------------------------------------------------------------------
(* search_articles *)

\* os.listdir(metadata_dir): the metadata files, in an order the file system
\* chooses
Listings ==
    LET S == {id \in Ids : metadata[id] # <<>>}
    IN {l \in [1..Cardinality(S) -> S] : \A i, j \in 1..Cardinality(S) : i # j => l[i] # l[j]}

\* variant of QueryMatches: the case of the letters counts
QueryMatchesCase(query, content) == IsSubstr(query, content)

\* line 129: query.lower() in content.lower()
QueryMatches(query, content) == IsSubstr(Lower(query), Lower(content))

\* line 130: tags is None or any(tag in metadata["tags"] for tag in tags)
TagsMatch(tags, mtags) ==
    \/ tags = None
    \/ \E i \in 1..Len(tags[1]) : \E j \in 1..Len(mtags) : tags[1][i] = mtags[j]

\* lines 131-137
Summary(id, m) ==
    [article_id |-> id, title |-> m.title, tags |-> m.tags,
     created_at |-> m.created_at, last_modified |-> m.last_modified]

RECURSIVE SearchLoopSkip(_, _, _, _, _)
\* variant of SearchLoop: an article without a body file is passed over
SearchLoopSkip(listing, i, query, tags, results) ==
    IF i > Len(listing) THEN [status |-> "returned", ret |-> results]
    ELSE LET id == listing[i]
             m == JsonLoad(metadata[id][1])
         IN IF articles[id] = <<>>
            THEN SearchLoopSkip(listing, i + 1, query, tags, results)
            ELSE SearchLoopSkip(listing, i + 1, query, tags,
                     IF QueryMatches(query, Translate(articles[id][1]))
                           /\ TagsMatch(tags, m.tags)
                     THEN Append(results, Summary(id, m))
                     ELSE results)

RECURSIVE SearchLoop(_, _, _, _, _)
\* lines 114-139: the loop over the listing from entry i on; a body that is
\* missing ends the whole call with FileNotFoundError
SearchLoop(listing, i, query, tags, results) ==
    IF i > Len(listing) THEN [status |-> "returned", ret |-> results]
    ELSE LET id == listing[i]
             m == JsonLoad(metadata[id][1])
         IN IF articles[id] = <<>> THEN [status |-> "raised", ret |-> <<>>]
            ELSE LET content == Translate(articles[id][1])
                 IN SearchLoop(listing, i + 1, query, tags,
                        IF QueryMatches(query, content) /\ TagsMatch(tags, m.tags)
                        THEN Append(results, Summary(id, m))
                        ELSE results)

search_articles(listing, query, tags) == SearchLoop(listing, 1, query, tags, <<>>)

Search(p, query, tags) ==
    /\ pend[p].pc = "idle"
    /\ \E listing \in Listings :
         LET r == search_articles(listing, query, tags)
         IN last' = Call("search", r.status, 0, <<>>, None, tags, query, FALSE, r.ret)
    /\ UNCHANGED <<articles, metadata, now, pend>>

----------------------------------------------------------------------------
(* Files removed behind the manager's back *)

DeleteBody(id) ==
    /\ articles[id] # <<>>
    /\ articles' = [articles EXCEPT ![id] = <<>>]
    /\ last' = Call("deleted", "returned", id, <<>>, None, None, <<>>, FALSE, <<>>)
    /\ UNCHANGED <<metadata, now, pend>>

DeleteMeta(id) ==
    /\ metadata[id] # <<>>
    /\ metadata' = [metadata EXCEPT ![id] = <<>>]
    /\ last' = Call("deleted", "returned", id, <<>>, None, None, <<>>, FALSE, <<>>)
    /\ UNCHANGED <<articles, now, pend>>

----------------------------------------------------------------------------
(* Specifications *)

\* one caller, one call at a time
Next ==
    \/ Tick
    \/ \E title \in Titles, content \in Contents, tags \in TagLists :
         CreateBody(MainCaller, title, content, tags)
    \/ CreateMeta(MainCaller)
    \/ \E id \in Ids, content \in Opt(Contents), tags \in Opt(TagLists) :
         UpdateCheck(MainCaller, id, content, tags)
    \/ UpdateContent(MainCaller)
    \/ UpdateTags(MainCaller)
    \/ \E id \in Ids : Get(MainCaller, id)

Spec == Init /\ [][Next]_vars

\* one caller, and files that disappear behind its back
NextOOB ==
    \/ Tick
    \/ \E title \in SmallTitles, content \in SmallContents, tags \in TagLists :
         CreateBody(MainCaller, title, content, tags)
    \/ CreateMeta(MainCaller)
    \/ \E id \in Ids, content \in Opt(OneContent), tags \in Opt(OneTagList) :
         UpdateCheck(MainCaller, id, content, tags)
    \/ UpdateContent(MainCaller)
    \/ UpdateTags(MainCaller)
    \/ \E id \in Ids : Get(MainCaller, id)
    \/ \E query \in Queries, tags \in Opt(TagLists) : Search(MainCaller, query, tags)
    \/ \E id \in Ids : DeleteBody(id)
    \/ \E id \in Ids : DeleteMeta(id)

SpecOOB == Init /\ [][NextOOB]_vars

\* several callers whose create and update calls interleave
NextConc ==
    \/ Tick
    \/ \E p \in Callers, title \in SmallTitles, content \in OneContent, tags \in OneTagList :
         CreateBody(p, title, content, tags)
    \/ \E p \in Callers : CreateMeta(p)
    \/ \E p \in Callers : CreateFail(p)
    \/ \E p \in Callers, id \in Ids, content \in Opt(SmallContents), tags \in Opt(OneTagList) :
         UpdateCheck(p, id, content, tags)
    \/ \E p \in Callers : UpdateContent(p)
    \/ \E p \in Callers : UpdateTags(p)

SpecConc == Init /\ [][NextConc]_vars

----------------------------------------------------------------------------
(* Properties *)

\* the first line of a text, with its line break
FirstLineOf(text) ==
    IF \E i \in 1..Len(text) : text[i] = "\n"
    THEN SubSeq(text, 1, CHOOSE i \in 1..Len(text) :
                            text[i] = "\n" /\ \A j \in 1..(i - 1) : text[j] # "\n")
    ELSE text

\* query occurs in text when letter case is ignored
ContainsIgnoringCase(query, text) ==
    \E k \in 0..(Len(text) - Len(query)) :
       \A j \in 1..Len(query) : LowerChar(text[k + j]) = LowerChar(query[j])

HasBoth(id) == articles[id] # <<>> /\ metadata[id] # <<>>
Meta(id) == JsonLoad(metadata[id][1])
MetaAfter(id) == JsonLoad(metadata'[id][1])
Body(id) == Translate(articles[id][1])
BodyAfter(id) == Translate(articles'[id][1])
Returned(op) == last.op = op /\ last.status = "returned"

\* C1 as the spec states it: get(create(title, content, tags)) returns the
\* content argument as 'content' and the tags argument as metadata 'tags'.
C1_RoundTripContent ==
    Returned("create") =>
        LET r == get_article(last.ret)
        IN /\ r # None
           /\ r[1].content = last.content[1]
           /\ r[1].metadata.tags = last.tags[1]

\* C1 (amended): get(create(title, content, tags)) returns as 'content' the
\* whole body "# {title}\n\n{content}" as a text-mode read gives it (every
\* "\r\n" and "\r" read as "\n"), which ends with the content argument when
\* that holds no carriage return, and as metadata 'tags' the tags argument.
C1_RoundTripBody ==
    Returned("create") =>
        LET r == get_article(last.ret)
            c == last.content[1]
            written == <<"#", " ">> \o last.title \o <<"\n", "\n">> \o c
        IN /\ r # None
           /\ r[1].content = Translate(written)
           /\ (\A i \in 1..Len(c) : c[i] # "\r") =>
                 /\ Len(r[1].content) >= Len(c) + 2
                 /\ SubSeq(r[1].content, Len(r[1].content) - Len(c) + 1,
                           Len(r[1].content)) = c
                 /\ SubSeq(r[1].content, 1, 2) = <<"#", " ">>
           /\ r[1].metadata.tags = last.tags[1]

C1_Witness ==
    /\ Returned("create")
    /\ get_article(last.ret) # None
    /\ \E i \in 1..Len(last.content[1]) : last.content[1][i] = "\r"
    /\ get_article(last.ret)[1].content # Heading(last.title, last.content[1])

\* C2: every update_article call on an existing article that provides
\* content, tags or both sets last_modified to the time of that call.
C2_LastModifiedOnEveryUpdate ==
    [][(/\ pend[MainCaller].pc = "update_tags"
        /\ pend'[MainCaller].pc = "idle"
        /\ last'.status = "returned"
        /\ (pend[MainCaller].content # None \/ pend[MainCaller].tags # None))
       => MetaAfter(pend[MainCaller].id).last_modified = now']_vars

\* C3: when the body file or the metadata file of an identifier is missing,
\* update_article returns False and get_article returns None, whatever the
\* content and tags, neither raises and neither creates or changes a file.
C3_SoftFailure ==
    [][(/\ pend[MainCaller].pc = "idle"
        /\ last'.op \in {"update", "get"}
        /\ (articles[last'.id] = <<>> \/ metadata[last'.id] = <<>>))
       => /\ UpdateCheck(MainCaller, last'.id, last'.content, last'.tags)
             => /\ last'.status = "returned"
                /\ last'.ret = FALSE
                /\ pend'[MainCaller].pc = "idle"
                /\ UNCHANGED <<articles, metadata>>
          /\ Get(MainCaller, last'.id)
             => /\ last'.status = "returned"
                /\ last'.ret = None
                /\ UNCHANGED <<articles, metadata>>]_vars

C3_Witness ==
    /\ Returned("update")
    /\ last.ret = FALSE
    /\ last.content # None
    /\ articles[last.id] = <<>>
    /\ metadata[last.id] # <<>>

C5_TagUpdateFrame ==
    [][LET u == pend[MainCaller]
       IN /\ (u.pc = "update_tags" /\ pend'[MainCaller].pc = "idle" /\ u.tags # None)
             => /\ last'.status = "returned" /\ last'.ret = TRUE
                /\ MetaAfter(u.id).tags = u.tags[1]
                /\ MetaAfter(u.id).last_modified >= Meta(u.id).last_modified
                /\ MetaAfter(u.id).last_modified = now
                /\ UNCHANGED articles
          /\ (u.pc = "update_content" /\ u.content = None) => UNCHANGED articles
          /\ (u.pc \in {"update_content", "update_tags"}
                \/ pend'[MainCaller].pc \in {"update_content", "update_tags"})
             => \A id \in Ids :
                   /\ (metadata'[id] = <<>>) = (metadata[id] = <<>>)
                   /\ (metadata[id] # <<>> /\ metadata'[id] # metadata[id]) =>
                        /\ MetaAfter(id).title = Meta(id).title
                        /\ MetaAfter(id).created_at = Meta(id).created_at]_vars

C5_Witness ==
    /\ Returned("update")
    /\ last.ret = TRUE
    /\ last.content = None
    /\ last.tags # None
    /\ Meta(last.id).tags = last.tags[1]
    /\ Meta(last.id).last_modified > Meta(last.id).created_at

\* C6: update_article(id) with neither content nor tags, on an article whose
\* two files exist, returns True and leaves both files as they were.
C6_NoOpUpdate ==
    /\ [][LET u == pend[MainCaller]
          IN (u.pc \in {"update_content", "update_tags"}
                 /\ u.content = None /\ u.tags = None)
             => /\ UNCHANGED <<articles, metadata>>
                /\ pend'[MainCaller].pc = "idle"
                     => (last'.op = "update" /\ last'.status = "returned"
                           /\ last'.ret = TRUE)]_vars
    /\ []((Returned("update") /\ last.ret = FALSE) => ~HasBoth(last.id))
    /\ [](last.op = "update" => last.status # "raised")

C6_Witness ==
    /\ Returned("update")
    /\ last.ret = TRUE
    /\ last.content = None
    /\ last.tags = None
    /\ HasBoth(last.id)

\* the articles search_articles is to report
Matching(query, tags) ==
    {id \in Ids :
        /\ metadata[id] # <<>>
        /\ ContainsIgnoringCase(query, Body(id))
        /\ tags # None =>
              \E t \in {tags[1][i] : i \in 1..Len(tags[1])} :
                 t \in {Meta(id).tags[j] : j \in 1..Len(Meta(id).tags)}}

\* C7: when every metadata file has its body file, search_articles returns
\* one summary for exactly the articles whose body contains the query without
\* regard to case and, under a tags filter, share a tag with it; the empty
\* query matches every article; search changes no file.
C7_SearchCorrect ==
    /\ []((last.op = "search" /\ \A id \in Ids : metadata[id] # <<>> => articles[id] # <<>>)
          => /\ last.status = "returned"
             /\ \A i, j \in 1..Len(last.ret) :
                   i # j => last.ret[i].article_id # last.ret[j].article_id
             /\ {last.ret[i].article_id : i \in 1..Len(last.ret)}
                   = Matching(last.query, last.tags)
             /\ \A i \in 1..Len(last.ret) :
                   LET id == last.ret[i].article_id
                   IN last.ret[i] =
                        [article_id |-> id, title |-> Meta(id).title,
                         tags |-> Meta(id).tags, created_at |-> Meta(id).created_at,
                         last_modified |-> Meta(id).last_modified]
             /\ (last.query = <<>> /\ last.tags = None)
                   => Len(last.ret) = Cardinality({id \in Ids : metadata[id] # <<>>}))
    /\ [][last'.op = "search" => UNCHANGED <<articles, metadata>>]_vars

C7_Witness ==
    /\ Returned("search")
    /\ last.query = <<"b", "\n">>
    /\ last.tags # None
    /\ Len(last.ret) = 1
    /\ \A id \in Ids : HasBoth(id) /\ ContainsIgnoringCase(last.query, Body(id))

\* C8: a create_article call in a second in which an article was already
\* created returns the identifier of that second, does not fail, and leaves
\* under it the body and the metadata (title, tags) of this call.
C8_SameSecondOverwrite ==
    /\ [][(pend[MainCaller].pc = "idle" /\ pend'[MainCaller].pc = "create_meta")
          => pend'[MainCaller].id = now \div TicksPerSecond]_vars
    /\ [](last.op = "create" => last.status # "raised")
    /\ []((Returned("create") /\ last.existed)
          => /\ last.ret = last.id
             /\ articles[last.ret] =
                   Some(<<"#", " ">> \o last.title \o <<"\n", "\n">> \o last.content[1])
             /\ metadata[last.ret] # <<>>
             /\ Meta(last.ret).title = last.title
             /\ Meta(last.ret).tags = last.tags[1])

C8_Witness ==
    /\ Returned("create")
    /\ last.existed
    /\ last.title = <<"A">>
    /\ Meta(last.ret).created_at > 0

\* C9: when some metadata file has no body file, search_articles ends with
\* an error and returns no result, even when other articles match.
C9_SearchFailsHard ==
    (last.op = "search" /\ \E id \in Ids : metadata[id] # <<>> /\ articles[id] = <<>>)
       => (last.status = "raised" /\ last.ret = <<>>)

C9_Witness ==
    /\ last.op = "search"
    /\ last.status = "raised"
    /\ \E id \in Ids : metadata[id] # <<>> /\ articles[id] = <<>>
    /\ \E id \in Ids : HasBoth(id) /\ ContainsIgnoringCase(last.query, Body(id))

\* C10: in every state of every interleaving of create_article and
\* update_article calls, between the two writes of a create and after a
\* create that failed included, an identifier with a metadata file has a
\* body file.
C10_MetadataImpliesBody ==
    \A id \in Ids : metadata[id] # <<>> => articles[id] # <<>>

C10_Witness ==
    /\ last.op = "create"
    /\ last.status = "raised"
    /\ articles[last.id] # <<>>
    /\ metadata[last.id] = <<>>
    /\ \E p \in Callers : pend[p].pc = "update_tags"
    /\ \E id \in Ids : HasBoth(id)

====
